---- MODULE Spec2Model ----
(***************************************************************************)
(* A model of dbar.py: the status bar of dwm.  Every Task (Source) runs    *)
(* its work() coroutine on one asyncio event loop, DBar._update (the       *)
(* Aggregator's recheck) composes the line and hands it to xsetroot, and   *)
(* DBar._check_dwm (the Watchdog) ends the process when dwm is gone.       *)
(*                                                                         *)
(* Text is modelled as a sequence of characters (one-character strings);   *)
(* a nerd-font glyph of an icon is one element, written "[name]".          *)
(***************************************************************************)
EXTENDS Integers, Sequences, FiniteSets, TLC

(***************************************************************************)
(* Bounds of the model.                                                    *)
(***************************************************************************)
\* fetches (async_run calls of the Sources) that complete in one run
MaxFetch == 3
\* deliveries of the audio trigger signal in one run
MaxSignals == 1
\* the volumes drawn for AudioControlTask._beautify range over 0..MaxVolume
MaxVolume == 100
\* failing amixer commands that complete in one run of the retry scenario
MaxAudioFetch == 12
\* nmcli commands that complete in one run of the outage scenario
MaxWifiFetch == 4

(***************************************************************************)
(* Text.                                                                   *)
(***************************************************************************)
Spaces(n) == [i \in 1..n |-> " "]

Whitespace == {" ", "\n", "\t"}

\* str.ljust(width)
Ljust(out, width) ==
    IF Len(out) >= width THEN out ELSE out \o Spaces(width - Len(out))

\* str.center(width): CPython pads left with marg/2 + (marg & width & 1)
Center(out, width) ==
    IF Len(out) >= width THEN out
    ELSE LET marg == width - Len(out)
             left == (marg \div 2) + (IF marg % 2 = 1 /\ width % 2 = 1 THEN 1 ELSE 0)
         IN  Spaces(left) \o out \o Spaces(marg - left)

RECURSIVE LStrip(_)
LStrip(s) == IF s # <<>> /\ Head(s) \in Whitespace THEN LStrip(Tail(s)) ELSE s

RECURSIVE RStrip(_)
RStrip(s) ==
    IF s # <<>> /\ s[Len(s)] \in Whitespace THEN RStrip(SubSeq(s, 1, Len(s) - 1)) ELSE s

\* str.strip()
Strip(s) == RStrip(LStrip(s))

DigitChars == <<"0", "1", "2", "3", "4", "5", "6", "7", "8", "9">>

IsDigit(c) == \E d \in 1..10 : DigitChars[d] = c

DigitVal(c) == (CHOOSE d \in 1..10 : DigitChars[d] = c) - 1

RECURSIVE DigitsVal(_)
DigitsVal(s) ==
    IF s = <<>> THEN 0 ELSE 10 * DigitsVal(SubSeq(s, 1, Len(s) - 1)) + DigitVal(s[Len(s)])

\* int(text): an optional sign and decimal digits; anything else raises ValueError
ParseInt(s) ==
    LET t    == Strip(s)
        neg  == t # <<>> /\ Head(t) = "-"
        body == IF t # <<>> /\ Head(t) \in {"-", "+"} THEN Tail(t) ELSE t
    IN  IF body # <<>> /\ \A i \in 1..Len(body) : IsDigit(body[i])
        THEN [ok |-> TRUE, v |-> IF neg THEN 0 - DigitsVal(body) ELSE DigitsVal(body)]
        ELSE [ok |-> FALSE, v |-> 0]

RECURSIVE NatToStr(_)
NatToStr(n) ==
    IF n < 10 THEN <<DigitChars[n + 1]>> ELSE NatToStr(n \div 10) \o <<DigitChars[(n % 10) + 1]>>

\* str(v)
IntToStr(v) == IF v < 0 THEN <<"-">> \o NatToStr(0 - v) ELSE NatToStr(v)

NOT_AVAILABLE == <<"E", "R", "R", "O", "R", " ", "N", "/", "A">>

(***************************************************************************)
(* The Sources.  DBar.__init__ lists WifiTask, EthernetTask, CPUTask,      *)
(* MemTask, AudioControlTask, DateTask.  EthernetTask is a second          *)
(* NetworkTask, and MemTask and CPUTask run Task.work with an interval and *)
(* one command per pass as DateTask does; the model keeps a NetworkTask,   *)
(* the AudioControlTask and a DateTask, in the declared order.             *)
(***************************************************************************)
tasks == <<"wifi", "audio", "date">>

Sources == {tasks[i] : i \in 1..Len(tasks)}

\* the class whose work_meat, _format and _beautify the Source runs
Class(s) ==
    CASE s = "wifi"  -> "NetworkTask"
      [] s = "audio" -> "AudioControlTask"
      [] s = "date"  -> "DateTask"

\* the constructor arguments each class passes to Task.__init__
Config(s) ==
    CASE s = "wifi" ->
           [signal |-> 0, width |-> 22, icon |-> << <<" ", "[wifi]", " ", " ">> >>,
            fgcolor  |-> <<"#", "2", "2", "2", "2", "2", "2">>,
            bgcolor  |-> <<"#", "4", "4", "4", "1", "f", "2">>,
            fgcolor2 |-> <<"#", "2", "2", "2", "2", "2", "2">>,
            bgcolor2 |-> <<"#", "8", "8", "8", "6", "f", "0">>]
      [] s = "audio" ->
           [signal |-> 34 + 10, width |-> 6,
            icon |-> << <<" ", "[mute]">>, <<" ", "[vol1]">>, <<" ", "[vol2]">>,
                        <<" ", "[vol3]">>, <<" ", "[vol4]">> >>,
            fgcolor  |-> <<"#", "2", "2", "2", "2", "2", "2">>,
            bgcolor  |-> <<"#", "7", "7", "f", "f", "3", "3">>,
            fgcolor2 |-> <<"#", "2", "2", "2", "2", "2", "2">>,
            bgcolor2 |-> <<"#", "a", "a", "f", "f", "8", "8">>]
      [] s = "date" ->
           [signal |-> 0, width |-> 22, icon |-> << <<" ", "[date]", " ", " ">> >>,
            fgcolor  |-> <<"#", "2", "2", "2", "2", "2", "2">>,
            bgcolor  |-> <<"#", "4", "4", "8", "8", "f", "f">>,
            fgcolor2 |-> <<"#", "2", "2", "2", "2", "2", "2">>,
            bgcolor2 |-> <<"#", "8", "8", "a", "a", "f", "f">>]

\* the interval each class passes to Task.__init__ (seconds; 0: no periodic refresh)
DefaultInterval(s) ==
    CASE s = "wifi" -> 3 [] s = "audio" -> 0 [] s = "date" -> 30

\* AudioControlTask.attempts
Attempts == 10

\* the fields with "self.sig_setup = signal != 0" written for "signal == 0"
NewTaskInverted(s) ==
    [raw_output |-> <<>>, output |-> <<>>, dirty |-> FALSE,
     sig_setup  |-> (Config(s).signal # 0),
     available  |-> TRUE, last_read |-> 0, attempts |-> Attempts]

\* the fields Task.__init__ and the subclasses' __init__ set
NewTask(s) ==
    [raw_output |-> <<>>, output |-> <<>>, dirty |-> FALSE,
     sig_setup  |-> (Config(s).signal = 0),
     available  |-> TRUE, last_read |-> 0, attempts |-> Attempts]

\* Task._format, overridden by AudioControlTask and NetworkTask
Task_format(s, out) ==
    LET width == Config(s).width
    IN  IF width = 0 THEN out
        ELSE IF Class(s) \in {"AudioControlTask", "NetworkTask"}
             THEN Center(out, width)
             ELSE Ljust(out, width)

\* "^c<colour>^" and "^b<colour>^", empty for an empty colour
FgMark(c) == IF c # <<>> THEN <<"^", "c">> \o c \o <<"^">> ELSE <<>>

BgMark(c) == IF c # <<>> THEN <<"^", "b">> \o c \o <<"^">> ELSE <<>>

\* Task._beautify
Task_beautify(s, out) ==
    LET c    == Config(s)
        head == IF c.icon # <<>>
                THEN FgMark(c.fgcolor) \o BgMark(c.bgcolor) \o c.icon[1]
                ELSE <<>>
    IN  head \o FgMark(c.fgcolor2) \o BgMark(c.bgcolor2) \o out \o <<"^", "d", "^">>

\* the glyph choice with "v <= 33" and "v <= 66" written for "v < 33" and "v < 66"
AudioIconIndexInclusive(v) ==
    IF v = 0 THEN 0
    ELSE IF v <= 33 THEN 1
    ELSE IF v <= 66 THEN 2
    ELSE IF v < 100 THEN 3
    ELSE 4

\* the index (from 0) of the glyph AudioControlTask._beautify picks for volume v
AudioIconIndex(v) ==
    IF v = 0 THEN 0
    ELSE IF v < 33 THEN 1
    ELSE IF v < 66 THEN 2
    ELSE IF v < 100 THEN 3
    ELSE 4

\* the body AudioControlTask._beautify renders for volume v
AudioBody(s, v) == Task_format(s, IntToStr(v) \o <<"%">>)

\* AudioControlTask._beautify: reads self.raw_output, not its argument
Audio_beautify(s, raw_output) ==
    LET c == Config(s)
        p == ParseInt(Strip(raw_output))
    IN  IF p.ok
        THEN <<"^", "c">> \o c.fgcolor \o <<"^">> \o <<"^", "b">> \o c.bgcolor \o <<"^">>
             \o c.icon[AudioIconIndex(p.v) + 1] \o <<" ">> \o <<" ">>
             \o <<"^", "c">> \o c.fgcolor2 \o <<"^">> \o <<"^", "b">> \o c.bgcolor2 \o <<"^">>
             \o AudioBody(s, p.v) \o <<"^", "d", "^">>
        ELSE NOT_AVAILABLE

\* NetworkTask._beautify
Network_beautify(s, available, out) ==
    IF ~available THEN <<>> ELSE Task_beautify(s, out)

\* self._beautify(out) of Source s whose fields are t (raw_output already stored)
Beautify(s, t, out) ==
    CASE Class(s) = "AudioControlTask" -> Audio_beautify(s, t.raw_output)
      [] Class(s) = "NetworkTask"      -> Network_beautify(s, t.available, out)
      [] OTHER                         -> Task_beautify(s, out)

\* a Task._update that stores a changed text and sets dirty but does not call
\* asyncio.create_task(self.cb())
Task_update_unnotified(s, t, out) ==
    LET f == Task_format(s, out)
    IN  IF f # t.raw_output
        THEN LET t1 == [t EXCEPT !.raw_output = f, !.dirty = TRUE]
             IN  [t |-> [t1 EXCEPT !.output = Beautify(s, t1, f)], notify |-> FALSE]
        ELSE [t |-> t, notify |-> FALSE]

\* a Task._update without the comparison "self.raw_output != out"
Task_update_unconditional(s, t, out) ==
    LET f  == Task_format(s, out)
        t1 == [t EXCEPT !.raw_output = f, !.dirty = TRUE]
    IN  [t |-> [t1 EXCEPT !.output = Beautify(s, t1, f)], notify |-> TRUE]

\* Task._update(out) on the fields t of Source s: the new fields, and whether
\* the change-notification callback was scheduled (cb is set for every Source
\* by DBar.__init__)
Task_update(s, t, out) ==
    LET f == Task_format(s, out)
    IN  IF f # t.raw_output
        THEN LET t1 == [t EXCEPT !.raw_output = f, !.dirty = TRUE]
             IN  [t |-> [t1 EXCEPT !.output = Beautify(s, t1, f)], notify |-> TRUE]
        ELSE [t |-> t, notify |-> FALSE]

\* a Task.get_output without "self.dirty = False"
Task_get_output_keeps(t) ==
    [output |-> t.output, b |-> t.dirty, t |-> t]

\* Task.get_output: the fragment, the dirty flag, and the fields with it cleared
Task_get_output(t) ==
    [output |-> t.output, b |-> t.dirty, t |-> [t EXCEPT !.dirty = FALSE]]

\* the status DBar._update builds from the fragments it read, in declared order:
\* the first fragment as it is, then " " and the fragment for every later
\* non-empty one
RECURSIVE StatusUpTo(_, _)
StatusUpTo(outs, n) ==
    IF n = 1 THEN outs[1]
    ELSE LET status == StatusUpTo(outs, n - 1)
         IN  IF outs[n] # <<>> THEN status \o <<" ">> \o outs[n] ELSE status

\* a DBar._update with "dirty = b" written for "dirty = b or dirty": the flag of
\* the Source read last decides
DBar_update_last(tk) ==
    LET got   == [i \in 1..Len(tasks) |-> Task_get_output(tk[tasks[i]])]
        outs  == [i \in 1..Len(tasks) |-> got[i].output]
        dirty == got[Len(tasks)].b
    IN  [tk      |-> [s \in Sources |->
                        (got[CHOOSE i \in 1..Len(tasks) : tasks[i] = s]).t],
         read    |-> {tasks[i] : i \in {j \in 1..Len(tasks) : got[j].b}},
         dirty   |-> dirty,
         publish |-> IF dirty THEN << StatusUpTo(outs, Len(tasks)) \o <<" ">> >> ELSE <<>>]

\* DBar._update up to its await: every Source read and cleared in declared
\* order (read: the Sources whose get_output returned dirty), the dirty flags
\* or-ed, and the line handed to xsetroot when one was set
DBar_update(tk) ==
    LET got   == [i \in 1..Len(tasks) |-> Task_get_output(tk[tasks[i]])]
        outs  == [i \in 1..Len(tasks) |-> got[i].output]
        dirty == \E i \in 1..Len(tasks) : got[i].b
    IN  [tk      |-> [s \in Sources |->
                        (got[CHOOSE i \in 1..Len(tasks) : tasks[i] = s]).t],
         read    |-> {tasks[i] : i \in {j \in 1..Len(tasks) : got[j].b}},
         dirty   |-> dirty,
         publish |-> IF dirty THEN << StatusUpTo(outs, Len(tasks)) \o <<" ">> >> ELSE <<>>]

(***************************************************************************)
(* What the outside world hands to a Source: the (text, returncode) of the *)
(* command async_run ran, and the figures a pass computes from             *)
(* /sys/class/net.                                                         *)
(***************************************************************************)
NoResult == [code |-> 0, out |-> <<>>]

\* async_run's results for the command of Source s
Results(s) ==
    CASE Class(s) = "NetworkTask" ->
           \* nmcli | grep | grep: a line and status 0, or nothing and status 1
           {[code |-> 0, out |-> <<"w", "l", "a", "n", "0", " ", " ", "w", "i", "f", "i", " ",
                                   " ", "c", "o", "n", "n", "e", "c", "t", "e", "d", "\n">>],
            [code |-> 1, out |-> <<>>]}
      [] Class(s) = "AudioControlTask" ->
           {[code |-> 0, out |-> <<"4", "5", "\n">>],
            [code |-> 0, out |-> <<"8", "0", "\n">>],
            [code |-> 1, out |-> <<>>]}
      [] Class(s) = "DateTask" ->
           {[code |-> 0, out |-> <<"T", "u", "e", " ", "0", "8", ":", "1", "7", "P", "M", "\n">>],
            [code |-> 1, out |-> <<>>]}

\* what a pass computes itself: NetworkTask's rx_speed + " " + tx_speed from the
\* byte counters and the clock; nothing for the other classes
Computed(s) ==
    CASE Class(s) = "NetworkTask" ->
           {<<"0", "B", "/", "S", " ", "0", "B", "/", "S">>,
            <<"1", ".", "0", "K", "B", "/", "S", " ", "0", "B", "/", "S">>}
      [] OTHER -> {<<>>}

(***************************************************************************)
(* work_meat of each class, from the return of its async_run to its end or *)
(* its next await.  The value: the Source's fields, whether _update        *)
(* scheduled the callback, the text handed to _update (a sequence of one   *)
(* text, empty when _update was not called), and what follows: "end" or    *)
(* "backoff" (asyncio.sleep(1) and another fetch).                         *)
(***************************************************************************)
Updated(s, t, out) ==
    LET u == Task_update(s, t, out)
    IN  [t |-> u.t, notify |-> u.notify, arg |-> <<out>>, next |-> "end"]

\* MemTask.work_meat, DateTask.work_meat
Date_work_meat(s, t, res) == Updated(s, t, <<" ">> \o Strip(res.out))

\* NetworkTask.work_meat after async_run
Network_work_meat(s, t, res, speeds) ==
    IF res.code # 0 /\ res.out = <<>>
    THEN [t |-> [t EXCEPT !.output = <<>>, !.available = FALSE, !.dirty = FALSE],
          notify |-> FALSE, arg |-> <<>>, next |-> "end"]
    ELSE LET t1 == [t EXCEPT !.available = TRUE]
         IN  IF t1.last_read = 0
             THEN [t |-> [t1 EXCEPT !.last_read = 1],
                   notify |-> FALSE, arg |-> <<>>, next |-> "end"]
             ELSE Updated(s, t1, <<" ">> \o speeds)

\* AudioControlTask.work_meat after async_run: one turn of its while loop
Audio_work_meat(s, t, res) ==
    IF res.code = 0
    THEN Updated(s, [t EXCEPT !.attempts = Attempts], <<" ">> \o Strip(res.out))
    ELSE IF t.attempts > 0
    THEN [t |-> [t EXCEPT !.attempts = t.attempts - 1],
          notify |-> FALSE, arg |-> <<>>, next |-> "backoff"]
    ELSE Updated(s, t, <<" ">> \o NOT_AVAILABLE)

\* a Task.work without "if self.interval == 0: break"
Task_work_next_loops(iv) == "sleep"

\* Task.work after "await self.work_meat()": sleep and loop, or break
Task_work_next(iv) == IF iv # 0 THEN "sleep" ELSE "done"

work_meat(s, t, res, c) ==
    CASE Class(s) = "NetworkTask"      -> Network_work_meat(s, t, res, c)
      [] Class(s) = "AudioControlTask" -> Audio_work_meat(s, t, res)
      [] Class(s) = "DateTask"         -> Date_work_meat(s, t, res)

(***************************************************************************)
(* The state.                                                              *)
(***************************************************************************)
VARIABLES
    phase,      \* "boot": __main__ before DBar(); "loop": the event loop runs; "exit"
    exitCode,   \* the exit status of the process, -1 while it runs
    dwm,        \* the number of processes "pgrep dwm" finds at startup
    interval,   \* Task.interval of every Source
    task,       \* the fields of every Source
    pc,         \* where the work() coroutine of every Source stands
    trig,       \* the signal-triggered work_meat tasks of a Source that await
    ready,      \* the event loop's queue of callbacks ready to run, first in first out
    wd,         \* where _check_dwm stands
    runpc,      \* where DBar.run stands
    inflight,   \* the lines of the xsetroot commands started and not yet run
    display,    \* the name xsetroot last set on the root window
    fetched,    \* the Sources' fetches completed so far
    signalled,  \* the trigger signals delivered so far
    passes,     \* per Source: the calls of its work_meat so far
    vol,        \* the volume amixer reported in the volume scenario, -1 outside it
    owed,       \* per Source: dirty flags raised minus dirty flags reported to a publishing recheck
    byUpdate,   \* per Source: whether Task._update wrote its present fragment
    seen,       \* per Source: the fragment the last publishing recheck read
    lastRead,   \* per Source: the fragment get_output last returned to a recheck
    last        \* the step the event loop (or __main__) took last

vars == <<phase, exitCode, dwm, interval, task, pc, trig, ready, wd, runpc, inflight,
          display, fetched, signalled, passes, vol, owed, byUpdate, seen, lastRead, last>>

\* the Sources a signal triggers
TrigSources == {s \in Sources : Config(s).signal # 0}

\* a callback in the ready queue
H(k, s, who, res) == [k |-> k, s |-> s, who |-> who, res |-> res]

CheckHandle == H("check", "-", "-", NoResult)

RunHandle == H("run", "-", "-", NoResult)

RecheckHandle == H("recheck", "-", "-", NoResult)

\* the root window's name before any xsetroot ran
Unset == <<"[unset]">>

Step(op, s, upd, rep, pub) == [op |-> op, s |-> s, upd |-> upd, rep |-> rep, pub |-> pub]

Construct(iv) ==
    /\ phase = "boot"
    /\ exitCode = -1
    /\ dwm \in 0..2
    /\ interval = iv
    /\ task = [s \in Sources |-> NewTask(s)]
    /\ pc = [s \in Sources |-> "new"]
    /\ trig = [s \in TrigSources |-> [fetch |-> 0, backoff |-> 0]]
    /\ ready = <<>>
    /\ wd = "new"
    /\ runpc = "new"
    /\ inflight = <<>>
    /\ display = Unset
    /\ fetched = 0
    /\ signalled = 0
    /\ passes = [s \in Sources |-> 0]
    /\ vol = -1
    /\ owed = [s \in Sources |-> 0]
    /\ byUpdate = [s \in Sources |-> FALSE]
    /\ seen = [s \in Sources |-> <<>>]
    /\ lastRead = [s \in Sources |-> <<>>]
    /\ last = Step("init", "-", "none", {}, 0)

\* the process as __main__ reaches "bar = DBar()"
Init == Construct([s \in Sources |-> DefaultInterval(s)])

RunsLoop == phase = "loop"

\* the process ends: the loop, its tasks and the Sources are gone; the commands
\* completed, the signals delivered and the root window's name stay as they were
Exit(code, op) ==
    /\ phase' = "exit"
    /\ exitCode' = code
    /\ task' = [s \in Sources |-> NewTask(s)]
    /\ pc' = [s \in Sources |-> "gone"]
    /\ trig' = [s \in TrigSources |-> [fetch |-> 0, backoff |-> 0]]
    /\ ready' = <<>>
    /\ wd' = "gone"
    /\ runpc' = "gone"
    /\ inflight' = <<>>
    /\ owed' = [s \in Sources |-> 0]
    /\ byUpdate' = [s \in Sources |-> FALSE]
    /\ seen' = [s \in Sources |-> <<>>]
    /\ lastRead' = [s \in Sources |-> <<>>]
    /\ last' = Step(op, "-", "none", {}, 0)
    /\ UNCHANGED <<dwm, interval, display, fetched, signalled, passes, vol>>

(***************************************************************************)
(* __main__ and DBar.__init__.                                             *)
(***************************************************************************)
\* the exit status had DBar.__init__ called sys.exit() without an argument
InitFailureCodeNone == 1 - 1

\* the exit status DBar.__init__ ends the process with when int(pgrep dwm) raises
InitFailureCode == 1

\* "pgrep dwm" finds no process (check_output raises) or several (int raises)
DBarInitFails ==
    /\ phase = "boot"
    /\ dwm # 1
    /\ phase' = "exit"
    /\ exitCode' = InitFailureCode
    /\ last' = Step("init_exit", "-", "none", {}, 0)
    /\ UNCHANGED <<dwm, interval, task, pc, trig, ready, wd, runpc, inflight, display,
                   fetched, signalled, passes, vol, owed, byUpdate, seen, lastRead>>

\* a DBar.run without "await asyncio.sleep(1.5)": the Sources' tasks are created
\* right after the Watchdog's
DBarInitNoSettle ==
    /\ phase = "boot"
    /\ dwm = 1
    /\ phase' = "loop"
    /\ ready' = <<CheckHandle>>
                 \o [i \in 1..Len(tasks) |-> H("work", tasks[i], "work", NoResult)]
    /\ wd' = "queued"
    /\ runpc' = "gather"
    /\ last' = Step("main", "-", "none", {}, 0)
    /\ UNCHANGED <<exitCode, dwm, interval, task, pc, trig, inflight, display, fetched,
                   signalled, owed, byUpdate, seen, passes, vol, lastRead>>

\* DBar() succeeds and run_until_complete runs DBar.run to its first await:
\* _check_dwm is created as a task, then asyncio.sleep(1.5)
DBarInit ==
    /\ phase = "boot"
    /\ dwm = 1
    /\ phase' = "loop"
    /\ ready' = <<CheckHandle>>
    /\ wd' = "queued"
    /\ runpc' = "settle"
    /\ last' = Step("main", "-", "none", {}, 0)
    /\ UNCHANGED <<exitCode, dwm, interval, task, pc, trig, inflight, display, fetched,
                   signalled, owed, byUpdate, seen, passes, vol, lastRead>>

(***************************************************************************)
(* The outside world.  asyncio's loop polls for finished subprocesses,     *)
(* expired timers and signals, and appends their callbacks to the ready    *)
(* queue behind what is already there.                                     *)
(***************************************************************************)
Enqueue(h) == ready' = Append(ready, h)

\* the command of the work() coroutine of Source s returns
FetchCompletes(s) ==
    /\ RunsLoop
    /\ pc[s] = "fetch"
    /\ fetched < MaxFetch
    /\ \E res \in Results(s) : Enqueue(H("io", s, "work", res))
    /\ pc' = [pc EXCEPT ![s] = "queued"]
    /\ fetched' = fetched + 1
    /\ UNCHANGED <<phase, exitCode, dwm, interval, task, trig, wd, runpc, inflight, display,
                   signalled, owed, byUpdate, seen, last, passes, vol, lastRead>>

\* the command of a signal-triggered work_meat of Source s returns
TriggeredFetchCompletes(s) ==
    /\ RunsLoop
    /\ trig[s].fetch > 0
    /\ fetched < MaxFetch
    /\ \E res \in Results(s) : Enqueue(H("io", s, "trig", res))
    /\ trig' = [trig EXCEPT ![s].fetch = @ - 1]
    /\ fetched' = fetched + 1
    /\ UNCHANGED <<phase, exitCode, dwm, interval, task, pc, wd, runpc, inflight, display,
                   signalled, owed, byUpdate, seen, last, passes, vol, lastRead>>

\* asyncio.sleep(1.5) of DBar.run ends
SettleElapses ==
    /\ RunsLoop
    /\ runpc = "settle"
    /\ Enqueue(RunHandle)
    /\ runpc' = "queued"
    /\ UNCHANGED <<phase, exitCode, dwm, interval, task, pc, trig, wd, inflight, display,
                   fetched, signalled, owed, byUpdate, seen, last, passes, vol, lastRead>>

\* one of the started xsetroot commands sets the root window's name; the
\* commands are separate processes and run in any order (the model follows
\* the process to its exit and no further)
Xsetroot ==
    /\ RunsLoop
    /\ \E i \in 1..Len(inflight) :
          /\ display' = inflight[i]
          /\ inflight' = SubSeq(inflight, 1, i - 1) \o SubSeq(inflight, i + 1, Len(inflight))
    /\ UNCHANGED <<phase, exitCode, dwm, interval, task, pc, trig, ready, wd, runpc,
                   fetched, signalled, owed, byUpdate, seen, last, passes, vol, lastRead>>

(***************************************************************************)
(* The event loop runs the callback at the head of the ready queue.  A     *)
(* coroutine runs from one await to the next without interruption.         *)
(***************************************************************************)
Runs(k) == RunsLoop /\ ready # <<>> /\ Head(ready).k = k

\* the exit status of sys.exit() in _check_dwm: SystemExit(None)
WatchdogExitCode == 0

\* the exit status after __main__ caught and logged an exception of the loop
LoggedExceptionExitCode == 0

\* _check_dwm, first turn: os.kill(self.ppid, 0) succeeds, then asyncio.sleep(1)
CheckDwm ==
    /\ Runs("check")
    /\ ready' = Tail(ready)
    /\ wd' = "sleep"
    /\ last' = Step("check", "-", "none", {}, 0)
    /\ UNCHANGED <<phase, exitCode, dwm, interval, task, pc, trig, runpc, inflight, display,
                   fetched, signalled, owed, byUpdate, seen, passes, vol, lastRead>>

\* _check_dwm, first turn: dwm ended since pgrep, os.kill raises OSError and
\* sys.exit() ends the process; SystemExit passes the loop and the
\* "except Exception" of __main__
CheckDwmExits ==
    /\ Runs("check")
    /\ Exit(WatchdogExitCode, "check_exit")

\* _check_dwm, a later turn, taken when its sleep ends: the probe reads nothing
\* another callback writes, so it is not queued behind them.  os.kill succeeds
\* and the coroutine sleeps again
CheckDwmAgain ==
    /\ RunsLoop
    /\ wd = "sleep"
    /\ UNCHANGED vars

\* a _check_dwm whose "except OSError" passes instead of calling sys.exit():
\* the failed probe is followed by the sleep and another probe
CheckDwmAgainRetries ==
    /\ RunsLoop
    /\ wd = "sleep"
    /\ last' = Step("check_exit", "-", "none", {}, 0)
    /\ UNCHANGED <<phase, exitCode, dwm, interval, task, pc, trig, ready, wd, runpc, inflight,
                   display, fetched, signalled, passes, vol, owed, byUpdate, seen, lastRead>>

\* the same turn when dwm has ended in the meantime
CheckDwmAgainExits ==
    /\ RunsLoop
    /\ wd = "sleep"
    /\ Exit(WatchdogExitCode, "check_exit")

\* DBar.run after its sleep: one task per Source, in declared order, then gather
Run ==
    /\ Runs("run")
    /\ ready' = Tail(ready) \o [i \in 1..Len(tasks) |-> H("work", tasks[i], "work", NoResult)]
    /\ runpc' = "gather"
    /\ last' = Step("run", "-", "none", {}, 0)
    /\ UNCHANGED <<phase, exitCode, dwm, interval, task, pc, trig, wd, inflight, display,
                   fetched, signalled, owed, byUpdate, seen, passes, vol, lastRead>>

\* Task.work to its first await: the signal handler is added when the Source
\* has a signal, then work_meat starts its command
Work(s) ==
    /\ Runs("work")
    /\ Head(ready).s = s
    /\ ready' = Tail(ready)
    /\ task' = [task EXCEPT ![s].sig_setup =
                   IF Config(s).signal # 0 /\ ~task[s].sig_setup THEN TRUE ELSE @]
    /\ pc' = [pc EXCEPT ![s] = "fetch"]
    /\ last' = Step("work", s, "none", {}, 0)
    /\ passes' = [passes EXCEPT ![s] = @ + 1]
    /\ UNCHANGED <<phase, exitCode, dwm, interval, trig, wd, runpc, inflight, display,
                   fetched, signalled, owed, byUpdate, seen, vol, lastRead>>

(***************************************************************************)
(* A turn that only starts a command (or ends in an exception) writes       *)
(* nothing another callback reads; it is taken when its timer or signal    *)
(* fires instead of being queued behind the callbacks that are ready.      *)
(***************************************************************************)
\* Task.work after asyncio.sleep(self.interval): the next work_meat starts its command
WorkLoop(s) ==
    /\ RunsLoop
    /\ pc[s] = "sleep"
    /\ fetched < MaxFetch
    /\ pc' = [pc EXCEPT ![s] = "fetch"]
    /\ last' = Step("work_meat", s, "none", {}, 0)
    /\ passes' = [passes EXCEPT ![s] = @ + 1]
    /\ UNCHANGED <<phase, exitCode, dwm, interval, task, trig, ready, wd, runpc, inflight,
                   display, fetched, signalled, owed, byUpdate, seen, vol, lastRead>>

\* the signal of Source s arrives after Task.work added its handler: the handler
\* creates a task that runs work_meat, which starts its command
SignalHandler(s) ==
    /\ RunsLoop
    /\ task[s].sig_setup
    /\ signalled < MaxSignals
    /\ signalled' = signalled + 1
    /\ trig' = [trig EXCEPT ![s].fetch = @ + 1]
    /\ last' = Step("signal", s, "none", {}, 0)
    /\ passes' = [passes EXCEPT ![s] = @ + 1]
    /\ UNCHANGED <<phase, exitCode, dwm, interval, task, pc, ready, wd, runpc, inflight,
                   display, fetched, owed, byUpdate, seen, vol, lastRead>>

\* AudioControlTask.work_meat after asyncio.sleep(1), in the work() coroutine:
\* code is still not 0 and the command starts again
BackoffResumes(s) ==
    /\ RunsLoop
    /\ pc[s] = "backoff"
    /\ pc' = [pc EXCEPT ![s] = "fetch"]
    /\ last' = Step("backoff", s, "none", {}, 0)
    /\ UNCHANGED <<phase, exitCode, dwm, interval, task, trig, ready, wd, runpc, inflight,
                   display, fetched, signalled, owed, byUpdate, seen, passes, vol, lastRead>>

\* the same in a signal-triggered work_meat
TriggeredBackoffResumes(s) ==
    /\ RunsLoop
    /\ trig[s].backoff > 0
    /\ trig' = [trig EXCEPT ![s] = [fetch |-> @.fetch + 1, backoff |-> @.backoff - 1]]
    /\ last' = Step("backoff", s, "none", {}, 0)
    /\ UNCHANGED <<phase, exitCode, dwm, interval, task, pc, ready, wd, runpc, inflight,
                   display, fetched, signalled, owed, byUpdate, seen, passes, vol, lastRead>>

\* work_meat of Source s goes on with the result of its command, to its end (and
\* then Task.work sleeps or returns) or to asyncio.sleep(1)
WorkMeatResumes(s) ==
    /\ Runs("io")
    /\ Head(ready).s = s
    /\ \E c \in Computed(s) :
         LET h == Head(ready)
             r == work_meat(s, task[s], h.res, c)
         IN  /\ task' = [task EXCEPT ![s] = r.t]
             /\ ready' = Tail(ready) \o (IF r.notify THEN <<RecheckHandle>> ELSE <<>>)
             /\ IF h.who = "work"
                THEN /\ pc' = [pc EXCEPT ![s] =
                                  IF r.next = "backoff" THEN "backoff"
                                  ELSE Task_work_next(interval[s])]
                     /\ trig' = trig
                ELSE /\ trig' = IF r.next = "backoff"
                                THEN [trig EXCEPT ![s].backoff = @ + 1] ELSE trig
                     /\ pc' = pc
             /\ owed' = [owed EXCEPT ![s] = IF ~task[s].dirty /\ r.t.dirty THEN @ + 1 ELSE @]
             /\ byUpdate' = [byUpdate EXCEPT ![s] =
                                IF r.notify THEN TRUE
                                ELSE IF r.t.output # task[s].output THEN FALSE ELSE @]
             /\ last' = Step("io", s,
                             IF r.arg = <<>> THEN "none"
                             ELSE IF Task_format(s, r.arg[1]) = task[s].raw_output
                                  THEN "same" ELSE "changed",
                             {}, 0)
    /\ UNCHANGED <<phase, exitCode, dwm, interval, wd, runpc, inflight, display, fetched,
                   signalled, seen, passes, vol, lastRead>>

\* NetworkTask.work_meat found the device with nmcli, and reading its
\* rx_bytes or tx_bytes raises (the file is gone, or holds no number): the
\* exception leaves work(), gather and run(), and __main__ logs it and ends
NetworkFault(s) ==
    /\ Runs("io")
    /\ Head(ready).s = s
    /\ Class(s) = "NetworkTask"
    /\ ~(Head(ready).res.code # 0 /\ Head(ready).res.out = <<>>)
    /\ Exit(LoggedExceptionExitCode, "fault")

\* DBar._update, scheduled by Task._update, to its await of xsetroot
Recheck ==
    /\ Runs("recheck")
    /\ LET r == DBar_update(task)
       IN  /\ task' = r.tk
           /\ inflight' = inflight \o r.publish
           /\ owed' = [s \in Sources |->
                          IF s \in r.read /\ r.publish # <<>> THEN owed[s] - 1 ELSE owed[s]]
           /\ seen' = IF r.publish # <<>> THEN [s \in Sources |-> task[s].output] ELSE seen
           /\ lastRead' = [s \in Sources |-> task[s].output]
           /\ last' = Step("recheck", "-", "none", r.read, Len(r.publish))
    /\ ready' = Tail(ready)
    /\ UNCHANGED <<phase, exitCode, dwm, interval, pc, trig, wd, runpc, display, fetched,
                   signalled, byUpdate, passes, vol>>

Next ==
    \/ DBarInit
    \/ DBarInitFails
    \/ CheckDwm
    \/ CheckDwmExits
    \/ Run
    \/ Recheck
    \/ Xsetroot
    \/ CheckDwmAgain
    \/ CheckDwmAgainExits
    \/ SettleElapses
    \/ \E s \in Sources :
          \/ Work(s)
          \/ WorkLoop(s)
          \/ WorkMeatResumes(s)
          \/ NetworkFault(s)
          \/ BackoffResumes(s)
          \/ FetchCompletes(s)
    \/ \E s \in TrigSources :
          \/ SignalHandler(s)
          \/ TriggeredFetchCompletes(s)
          \/ TriggeredBackoffResumes(s)

Spec == Init /\ [][Next]_vars

(***************************************************************************)
(* A DateTask constructed with interval=0: DateTask.__init__ takes the      *)
(* interval as a parameter, and with signal=0 the Source has no trigger.   *)
(***************************************************************************)
InitDate ==
    \E d \in {0, DefaultInterval("date")} :
        Construct([s \in Sources |-> IF s = "date" THEN d ELSE DefaultInterval(s)])

SpecDate == InitDate /\ [][Next]_vars

(***************************************************************************)
(* The volume scenario: amixer reports any volume of 0..MaxVolume and      *)
(* AudioControlTask.work_meat hands it to _update.                         *)
(***************************************************************************)
VolumeReported ==
    \E v \in 0..MaxVolume :
        LET r == Audio_work_meat("audio", task["audio"],
                                 [code |-> 0, out |-> IntToStr(v) \o <<"\n">>])
        IN  /\ task' = [task EXCEPT !["audio"] = r.t]
            /\ vol' = v
            /\ last' = Step("volume", "audio", "none", {}, 0)
            /\ UNCHANGED <<phase, exitCode, dwm, interval, pc, trig, ready, wd, runpc,
                           inflight, display, fetched, signalled, passes, owed, byUpdate,
                           seen, lastRead>>

NextVolume == VolumeReported

SpecVolume == Init /\ [][NextVolume]_vars

(***************************************************************************)
(* The retry scenario: every amixer command of the AudioControlTask fails. *)
(* Only the audio Source's commands return; the process starts and runs as *)
(* in Spec.                                                                *)
(***************************************************************************)
\* async_run of a command that printed nothing and returned 1
FailedResult == [code |-> 1, out |-> <<>>]

\* the amixer command of the work() coroutine returns non-zero
AudioFetchFails ==
    /\ RunsLoop
    /\ pc["audio"] = "fetch"
    /\ fetched < MaxAudioFetch
    /\ Enqueue(H("io", "audio", "work", FailedResult))
    /\ pc' = [pc EXCEPT !["audio"] = "queued"]
    /\ fetched' = fetched + 1
    /\ UNCHANGED <<phase, exitCode, dwm, interval, task, trig, wd, runpc, inflight, display,
                   signalled, owed, byUpdate, seen, last, passes, vol, lastRead>>

\* the amixer command of a signal-triggered work_meat returns non-zero
TriggeredAudioFetchFails ==
    /\ RunsLoop
    /\ trig["audio"].fetch > 0
    /\ fetched < MaxAudioFetch
    /\ Enqueue(H("io", "audio", "trig", FailedResult))
    /\ trig' = [trig EXCEPT !["audio"].fetch = @ - 1]
    /\ fetched' = fetched + 1
    /\ UNCHANGED <<phase, exitCode, dwm, interval, task, pc, wd, runpc, inflight, display,
                   signalled, owed, byUpdate, seen, last, passes, vol, lastRead>>

NextAudio ==
    \/ DBarInit
    \/ DBarInitFails
    \/ CheckDwm
    \/ SettleElapses
    \/ Run
    \/ Recheck
    \/ Xsetroot
    \/ \E s \in Sources : Work(s)
    \/ WorkMeatResumes("audio")
    \/ BackoffResumes("audio")
    \/ SignalHandler("audio")
    \/ TriggeredBackoffResumes("audio")
    \/ AudioFetchFails
    \/ TriggeredAudioFetchFails

SpecAudio == Init /\ [][NextAudio]_vars

(***************************************************************************)
(* The outage scenario: the wifi device comes and goes.  Only the wifi     *)
(* Source's commands return; the process starts and runs as in Spec.       *)
(***************************************************************************)
\* the nmcli command of the wifi Source returns
WifiFetchCompletes ==
    /\ RunsLoop
    /\ pc["wifi"] = "fetch"
    /\ fetched < MaxWifiFetch
    /\ \E res \in Results("wifi") : Enqueue(H("io", "wifi", "work", res))
    /\ pc' = [pc EXCEPT !["wifi"] = "queued"]
    /\ fetched' = fetched + 1
    /\ UNCHANGED <<phase, exitCode, dwm, interval, task, trig, wd, runpc, inflight, display,
                   signalled, owed, byUpdate, seen, last, passes, vol, lastRead>>

\* Task.work of the wifi Source after asyncio.sleep(self.interval)
WifiWorkLoop ==
    /\ RunsLoop
    /\ pc["wifi"] = "sleep"
    /\ fetched < MaxWifiFetch
    /\ pc' = [pc EXCEPT !["wifi"] = "fetch"]
    /\ last' = Step("work_meat", "wifi", "none", {}, 0)
    /\ passes' = [passes EXCEPT !["wifi"] = @ + 1]
    /\ UNCHANGED <<phase, exitCode, dwm, interval, task, trig, ready, wd, runpc, inflight,
                   display, fetched, signalled, owed, byUpdate, seen, vol, lastRead>>

NextWifi ==
    \/ DBarInit
    \/ DBarInitFails
    \/ CheckDwm
    \/ SettleElapses
    \/ Run
    \/ Recheck
    \/ Xsetroot
    \/ \E s \in Sources : Work(s)
    \/ WorkMeatResumes("wifi")
    \/ WifiFetchCompletes
    \/ WifiWorkLoop

SpecWifi == Init /\ [][NextWifi]_vars

(***************************************************************************)
(* Properties.                                                             *)
(***************************************************************************)
\* a recheck (DBar._update) is in the ready queue
RecheckPending == \E i \in 1..Len(ready) : ready[i].k = "recheck"

\* the step is a turn of DBar._update
IsRecheckStep == Runs("recheck") /\ phase' = "loop" /\ ready' = Tail(ready)

\* the step is the turn of work_meat of Source s that takes its command's result
IsIoStep(s) ==
    /\ Runs("io")
    /\ Head(ready).s = s
    /\ phase' = "loop"
    /\ ready' \in {Tail(ready), Tail(ready) \o <<RecheckHandle>>}

\* the Sources whose dirty flag is set
Dirty == {s \in Sources : task[s].dirty}

\* C1: no dirty flag is lost, however the Sources' updates and the rechecks
\* interleave: a set flag always has a recheck scheduled behind it, every flag
\* raised is reported to exactly one publishing recheck (or is still raised),
\* and once no recheck is scheduled the last line composed holds the fragment
\* of every Source that _update changed.
C1_NoDirtyFlagLost ==
    /\ \A s \in Sources : task[s].dirty => RecheckPending
    /\ \A s \in Sources : owed[s] = IF task[s].dirty THEN 1 ELSE 0
    /\ ~RecheckPending => \A s \in Sources : byUpdate[s] => seen[s] = task[s].output

\* two Sources changed before a recheck ran; the first recheck reported both
\* flags and published, and the second recheck is still scheduled
C1_Witness ==
    /\ last.op = "recheck"
    /\ Cardinality(last.rep) >= 2
    /\ last.pub = 1
    /\ RecheckPending

\* the line DBar._update composes from the fragments the Sources hold now
CurrentLine ==
    StatusUpTo([i \in 1..Len(tasks) |-> task[tasks[i]].output], Len(tasks)) \o <<" ">>

\* nothing is scheduled, no xsetroot command is outstanding, and a line was delivered
Quiescent == RunsLoop /\ ready = <<>> /\ inflight = <<>> /\ display # Unset

\* C2: once every scheduled recheck and every publish command has completed,
\* the line last delivered to the root window is the composition of the
\* Sources' current fragments.
C2_DeliveredLineIsCurrent == Quiescent => display = CurrentLine

\* C3: a recheck hands exactly one line to xsetroot when some Source returned
\* dirty=true in it, and none, with no other effect on the publisher, when no
\* Source did.
C3_PublishIffDirty ==
    [][IsRecheckStep =>
          /\ last'.rep = Dirty
          /\ Len(inflight') = Len(inflight) + (IF Dirty # {} THEN 1 ELSE 0)
          /\ last'.pub = Len(inflight') - Len(inflight)
          /\ SubSeq(inflight', 1, Len(inflight)) = inflight
          /\ display' = display]_vars

\* a recheck that found no Source dirty ran and published nothing, after an
\* earlier recheck had published
C3_Witness ==
    /\ last.op = "recheck"
    /\ last.rep = {}
    /\ last.pub = 0
    /\ inflight # <<>> \/ display # Unset

\* the non-empty fragments of outs up to the n-th, in order, one space between them
RECURSIVE JoinNonEmpty(_, _)
JoinNonEmpty(outs, n) ==
    IF n = 0 THEN <<>>
    ELSE LET before == JoinNonEmpty(outs, n - 1)
         IN  IF outs[n] = <<>> THEN before
             ELSE IF before = <<>> THEN outs[n]
             ELSE before \o <<" ">> \o outs[n]

\* C4: the line a recheck publishes is exactly the non-empty fragments, in the
\* declared order, separated by single spaces; an empty fragment, the first
\* one included, adds neither text nor a separator.
C4_LineIsJoinedFragments ==
    [][(IsRecheckStep /\ Len(inflight') > Len(inflight)) =>
          inflight'[Len(inflight')] =
             JoinNonEmpty([i \in 1..Len(tasks) |-> task[tasks[i]].output], Len(tasks))]_vars

\* C5: a refresh whose formatted text equals the stored raw_output leaves dirty,
\* raw_output and output as they were and schedules no recheck.
C5_SameTextIsNoOp ==
    [][\A s \in Sources :
          (IsIoStep(s) /\ last'.upd = "same") =>
             /\ task'[s].dirty = task[s].dirty
             /\ task'[s].raw_output = task[s].raw_output
             /\ task'[s].output = task[s].output
             /\ ready' = Tail(ready)]_vars

\* a Source refreshed with the text it already held, while it was not dirty
C5_Witness ==
    /\ last.op = "io"
    /\ last.upd = "same"
    /\ ~task[last.s].dirty
    /\ task[last.s].raw_output # <<>>

\* C6: an _update with a changed text sets dirty; a set flag is cleared only by
\* the aggregator's get_output, which reports it as true; after that read the
\* flag is false, and it is set again only by another changing _update.
C6_DirtyLifecycle ==
    [][/\ \A s \in Sources : (IsIoStep(s) /\ last'.upd = "changed") => task'[s].dirty
       /\ \A s \in Sources :
             (task[s].dirty /\ ~task'[s].dirty /\ phase' = "loop") =>
                (IsRecheckStep /\ s \in last'.rep)
       /\ IsRecheckStep => (last'.rep = Dirty /\ \A s \in Sources : ~task'[s].dirty)
       /\ \A s \in Sources :
             (~task[s].dirty /\ task'[s].dirty) => (IsIoStep(s) /\ last'.upd = "changed")]_vars

\* the audio Source alone was reported dirty by a recheck, while the date
\* Source, changed and read earlier, was read again and reported not dirty
C6_Witness ==
    /\ last.op = "recheck"
    /\ last.rep = {"audio"}
    /\ byUpdate["date"]
    /\ seen["date"] = task["date"].output

\* C7: a Source with interval=0 and no trigger signal calls its work_meat once
\* after startup and never again: it is never called a second time, and when
\* Task.work has returned it was called exactly once.
C7_RunsOnce ==
    \A s \in Sources :
        (interval[s] = 0 /\ Config(s).signal = 0) =>
            /\ passes[s] <= 1
            /\ pc[s] = "new" => passes[s] = 0
            /\ pc[s] \in {"fetch", "done"} => passes[s] = 1

\* the DateTask with interval=0 finished its only pass and updated its fragment,
\* and the other Sources went on fetching
C7_Witness ==
    /\ interval["date"] = 0
    /\ pc["date"] = "done"
    /\ passes["date"] = 1
    /\ task["date"].raw_output # <<>>
    /\ fetched = MaxFetch

\* C8: when the Watchdog finds dwm gone, at its first probe or a later one, the
\* process exits with a non-zero status.
C8_WatchdogExitsNonZero == last.op = "check_exit" => (phase = "exit" /\ exitCode # 0)

\* C9: when "pgrep dwm" does not give one pid at startup the loop never runs and
\* the process exits with a non-zero status before any Source is started, any
\* command is fetched or any line is published.
C9_StartupFailure ==
    /\ dwm # 1 => phase \in {"boot", "exit"}
    /\ (dwm # 1 /\ phase = "exit") =>
          /\ exitCode # 0
          /\ last.op = "init_exit"
          /\ \A s \in Sources : pc[s] = "new" /\ passes[s] = 0
          /\ ready = <<>> /\ wd = "new" /\ runpc = "new"
          /\ fetched = 0
          /\ inflight = <<>> /\ display = Unset

\* pgrep found no dwm and the process has exited with status 1
C9_Witness == dwm = 0 /\ phase = "exit" /\ exitCode = 1 /\ last.op = "init_exit"

\* the glyph of the audio fragment: the element after the two colour marks and
\* the icon's leading space
AudioGlyph == task["audio"].output[22]

\* the body of the audio fragment: the six columns before the closing "^d^"
AudioBodyShown == SubSeq(task["audio"].output, 45, 50)

\* the five glyphs of AudioControlTask, lowest tier first
Glyphs == <<"[mute]", "[vol1]", "[vol2]", "[vol3]", "[vol4]">>

\* C10 as the spec words it: the thresholds 0, <33, <66, <100 and 100 pick the
\* glyph, and volume 45 shows the second-lowest glyph and the body "45%".
C10_SecondLowestTier ==
    vol = 45 => (AudioGlyph = Glyphs[2] /\ Strip(AudioBodyShown) = <<"4", "5", "%">>)

\* C10: the glyph is picked by the thresholds 0, <33, <66, <100 and 100, the
\* body is the volume followed by "%" centred in six columns, and volume 45
\* shows the glyph of [33, 66), the third of the five, with the body " 45%  ".
C10_VolumeTiers ==
    vol \in 0..100 =>
        /\ AudioGlyph = Glyphs[(CASE vol = 0   -> 0
                                  [] vol \in 1..32  -> 1
                                  [] vol \in 33..65 -> 2
                                  [] vol \in 66..99 -> 3
                                  [] vol = 100 -> 4) + 1]
        /\ Strip(AudioBodyShown) = IntToStr(vol) \o <<"%">>
        /\ vol = 45 => /\ AudioGlyph = Glyphs[3]
                       /\ AudioBodyShown = <<" ", "4", "5", "%", " ", " ">>

\* amixer reported 45 and the fragment shows the glyph of [33, 66)
C10_Witness == vol = 45 /\ AudioGlyph = "[vol2]" /\ last.op = "volume"

\* C11: rechecks exclude each other over read, clear, compose and publish:
\* while a recheck waits for its xsetroot command, no other recheck runs (none
\* reads or clears a dirty flag, composes a line or starts a command).
C11_RechecksExcludeEachOther == [][IsRecheckStep => inflight = <<>>]_vars

\* the work_meat passes of Source s in flight: the pass of its work() coroutine
\* (fetching, backing off, or with its command's result queued) and the
\* signal-triggered ones
InFlight(s) ==
    (IF \/ pc[s] \in {"fetch", "backoff"}
        \/ \E i \in 1..Len(ready) :
              ready[i].k = "io" /\ ready[i].s = s /\ ready[i].who = "work"
     THEN 1 ELSE 0)
    + (IF s \in TrigSources
       THEN trig[s].fetch + trig[s].backoff
            + Cardinality({i \in 1..Len(ready) :
                             ready[i].k = "io" /\ ready[i].s = s /\ ready[i].who = "trig"})
       ELSE 0)

\* C12: the refresh cycles of one Source never overlap: at no time are two
\* work_meat passes of the same Source in flight, a trigger signal delivered
\* during an earlier pass included.
C12_NoOverlappingPasses == \A s \in Sources : InFlight(s) <= 1

\* C13: for every Source dirty is true if and only if its output differs from
\* the value the aggregator last read through get_output (the empty fragment
\* before the first read).
C13_DirtyIffUnread ==
    RunsLoop => \A s \in Sources : task[s].dirty <=> (task[s].output # lastRead[s])

\* C14: an unhandled fault in one Source's refresh cycle does not stop the
\* others: after it the event loop still runs, the Watchdog still runs and the
\* work() coroutine of every other Source is still there.
C14_FaultIsIsolated ==
    last.op = "fault" =>
        /\ RunsLoop
        /\ wd # "gone"
        /\ \E s \in Sources : pc[s] # "gone"

\* C15: every refresh cycle of the audio Source whose fetches keep failing
\* retries Attempts times in that cycle before it falls back to the marker,
\* whatever earlier or concurrent cycles did: with every command failing, each
\* cycle that has ended accounts for Attempts + 1 failed commands of its own.
C15_RetryBudgetPerCycle ==
    RunsLoop => (passes["audio"] - InFlight("audio")) * (Attempts + 1) <= fetched

\* the handler of the trigger signal of Source s is registered
Registered(s) == task[s].sig_setup

\* C16: the trigger signal's handler is registered once, by Task.work at the
\* Source's setup, and stays registered; after that every delivery starts one
\* work_meat pass: the passes of a triggered Source without interval are the
\* startup pass and one per delivery.  (The audio Source is the only one with
\* a trigger, so signalled counts its deliveries.)
C16_OnePassPerDelivery ==
    /\ [](RunsLoop =>
            \A s \in TrigSources :
                /\ Registered(s) <=> pc[s] # "new"
                /\ signalled > 0 => Registered(s)
                /\ interval[s] = 0 =>
                      passes[s] = (IF pc[s] # "new" THEN 1 ELSE 0) + signalled)
    /\ [][\A s \in TrigSources :
             /\ (Registered(s) /\ phase' = "loop") => task'[s].sig_setup
             /\ (~Registered(s) /\ task'[s].sig_setup /\ phase' = "loop") =>
                   (Runs("work") /\ Head(ready).s = s)
             /\ (signalled' = signalled + 1 /\ interval[s] = 0) =>
                   (passes'[s] = passes[s] + 1 /\ InFlight(s)' = InFlight(s) + 1)]_vars

\* the signal was delivered after the audio Source's setup, and the Source has
\* run its startup pass and one triggered pass
C16_Witness ==
    /\ RunsLoop
    /\ signalled = MaxSignals
    /\ passes["audio"] = 1 + MaxSignals
    /\ InFlight("audio") = 0

\* C17: while the loop runs the Watchdog is there, queued for its first probe
\* or sleeping until the next; the first probe that fails ends the whole
\* process at once, and after it no Source starts a pass, no command result is
\* taken, no recheck runs and no line is handed to or set by xsetroot.
C17_FailedProbeEndsAll ==
    /\ [](RunsLoop => wd \in {"queued", "sleep"})
    /\ [](last.op = "check_exit" =>
             (phase = "exit" /\ ready = <<>> /\ inflight = <<>>
              /\ \A s \in Sources : pc[s] = "gone"))
    /\ [][phase = "exit" =>
             (passes' = passes /\ fetched' = fetched /\ signalled' = signalled
              /\ inflight' = inflight /\ display' = display /\ last' = last)]_vars

\* a probe failed after the Sources had fetched and a line had been set, and
\* the process is gone
C17_Witness ==
    /\ last.op = "check_exit"
    /\ phase = "exit"
    /\ fetched > 0
    /\ display # Unset

\* C18: a Source starts its first pass only after DBar.run has slept its settle
\* period and created the Sources' tasks, and by then the Watchdog has probed
\* at least once; when the first probe finds dwm gone the process ends while
\* DBar.run still waits in (or on the end of) the settle period, with no Source
\* started and no command fetched.
C18_SettleBeforeSources ==
    /\ [](RunsLoop =>
            \A s \in Sources : pc[s] # "new" => (runpc = "gather" /\ wd = "sleep"))
    /\ [][/\ \A s \in Sources :
                passes'[s] > passes[s] => (runpc = "gather" /\ wd = "sleep")
          /\ (Runs("check") /\ phase' = "exit") =>
                /\ runpc \in {"settle", "queued"}
                /\ fetched' = 0
                /\ \A s \in Sources : pc[s] = "new" /\ passes'[s] = 0]_vars

\* dwm was found by pgrep but was gone at a probe made before any Source had
\* started: the process ended with no pass run and no command fetched
C18_Witness ==
    /\ dwm = 1
    /\ phase = "exit"
    /\ last.op = "check_exit"
    /\ fetched = 0
    /\ \A s \in Sources : passes[s] = 0

\* the text needle occurs in the text hay
ContainsText(hay, needle) ==
    \E i \in 0..(Len(hay) - Len(needle)) : SubSeq(hay, i + 1, i + Len(needle)) = needle

\* the step is the loop's turn on the command result of Source s: work_meat
\* goes on with it, or ends in an exception that ends the process
TakesResult(s) == IsIoStep(s) \/ (Runs("io") /\ Head(ready).s = s /\ last'.op = "fault")

\* C19: after a refresh cycle of a periodic Source whose command failed, the
\* Source's fragment is the unavailable marker (or empty, for a network
\* Source), the event loop still runs, and the Source sleeps its interval
\* before the next cycle.
C19_FailedFetchGivesMarker ==
    [][\A s \in Sources :
          (TakesResult(s) /\ interval[s] # 0 /\ Head(ready).res.code # 0) =>
             /\ phase' = "loop"
             /\ pc'[s] = "sleep"
             /\ \/ ContainsText(task'[s].output, NOT_AVAILABLE)
                \/ Class(s) = "NetworkTask" /\ task'[s].output = <<>>]_vars

\* C20: whenever a network Source is available and its refresh has just called
\* _update with a computed text, its output is the decorated form of its
\* raw_output and is not empty, also after the device was away and came back.
C20_AvailableIsRendered ==
    \A s \in Sources :
        (Class(s) = "NetworkTask" /\ task[s].available
           /\ last.op = "io" /\ last.s = s /\ last.upd # "none") =>
            /\ task[s].output = Task_beautify(s, task[s].raw_output)
            /\ task[s].output # <<>>

====
